---- MODULE Spec2Model ----
(***************************************************************************)
(* Model of configuration_sam_hq.py: the four configuration classes        *)
(* SAMHQPromptEncoderConfig, SAMHQMaskDecoderConfig, SAMHQVisionConfig and  *)
(* SAMHQConfig, as operations of a caller on a heap of Python objects.      *)
(*                                                                         *)
(* Representation.                                                         *)
(*  - A keyword mapping / instance __dict__ / to_dict() result is a         *)
(*    function from attribute names (strings) to values.                   *)
(*  - Python floats that are only stored are kept as their repr string      *)
(*    ("1e-06"); mlp_ratio, which is multiplied, is the exact rational      *)
(*    [num, den] (den > 0).                                                 *)
(*  - A list object lives in `lists`; an attribute holding a list holds     *)
(*    its index (a reference).  lists[DefaultListRef] is the list object    *)
(*    created once when `def __init__(... global_attn_indexes=[2,5,8,11])`  *)
(*    is evaluated.                                                         *)
(*  - A config object lives in `heap`; the three sub-config attributes of   *)
(*    SAMHQConfig, and the arguments given for them, are tagged values      *)
(*    (None, a reference to an instance, or a raw dict).                    *)
(***************************************************************************)
EXTENDS Integers, Sequences, FiniteSets, TLC

VARIABLES
    heap,     \* sequence of config objects [cls, attrs]; index = reference
    lists,    \* sequence of list objects (their current contents)
    birth,    \* history: for each heap object, how it was constructed
    touched,  \* history: references through which a list was mutated in place
    last,     \* history: the caller's last operation and its outcome
    calls,    \* number of successful constructor calls made by the caller
    writes    \* number of attribute assignments / list mutations made

vars == <<heap, lists, birth, touched, last, calls, writes>>

\* ---------------------------------------------------------------- bounds
\* Constructor calls and writes a caller makes on the sub-config classes alone.
MaxCalls == 2
MaxWrites == 2
\* Constructor calls and writes a caller makes when composing a SAMHQConfig.
MaxTopCalls == 2
MaxTopWrites == 1
\* Length up to which a list is appended to.
MaxListLen == 5

\* ------------------------------------------------------- keyword mappings
EmptyMap == [k \in {} |-> 0]

Has(m, k) == k \in DOMAIN m

Get(m, k, dflt) == IF k \in DOMAIN m THEN m[k] ELSE dflt

\* `top` laid over `base`: later assignments win.
Override(base, top) ==
    [k \in (DOMAIN base) \cup (DOMAIN top) |->
        IF k \in DOMAIN top THEN top[k] ELSE base[k]]

Restrict(m, K) == [k \in (DOMAIN m) \cap K |-> m[k]]

Without(m, K) == [k \in (DOMAIN m) \ K |-> m[k]]

\* ------------------------------------------------------ Python arithmetic
\* Mutant: a // b rounding toward zero, as C-style integer division does.
PyTruncDiv(a, b) ==
    LET q == (IF a < 0 THEN 0 - a ELSE a) \div (IF b < 0 THEN 0 - b ELSE b)
    IN  IF (a < 0) = (b < 0) THEN q ELSE 0 - q

\* a // b for b # 0: floor division.
PyFloorDiv(a, b) == IF b > 0 THEN a \div b ELSE (0 - a) \div (0 - b)

\* int(n / d) for d > 0: truncation toward zero.
PyInt(n, d) == IF n >= 0 THEN n \div d ELSE 0 - ((0 - n) \div d)

\* ------------------------------------------------------- tagged arguments
NoneArg == [kind |-> "none", ref |-> 0, d |-> EmptyMap]

InstArg(r) == [kind |-> "inst", ref |-> r, d |-> EmptyMap]

DictArg(m) == [kind |-> "dict", ref |-> 0, d |-> m]

\* ------------------------------------------------- outcomes of __init__
Ok(attrs) == [ok |-> TRUE, err |-> "", attrs |-> attrs]

Raise(e) == [ok |-> FALSE, err |-> e, attrs |-> EmptyMap]

\* PretrainedConfig.__init__(**kwargs): keys the subclass does not name are
\* kept as attributes of the instance.
BaseInit(extra) == extra

\* ------------------------------------------- SAMHQPromptEncoderConfig
PromptParams ==
    {"hidden_size", "image_size", "patch_size", "mask_input_channels",
     "num_point_embeddings", "hidden_act", "layer_norm_eps"}

PromptDefaults ==
    [hidden_size |-> 256, image_size |-> 1024, patch_size |-> 16,
     mask_input_channels |-> 16, num_point_embeddings |-> 4,
     hidden_act |-> "gelu", layer_norm_eps |-> "1e-06"]

PromptFields == PromptParams \cup {"image_embedding_size"}

\* Mutant: super().__init__(**kwargs) called after the assignments, so that
\* an extra option overwrites the attribute of the same name.
PromptInitSuperLast(kw) ==
    LET p == Override(PromptDefaults, Restrict(kw, PromptParams))
        base == BaseInit(Without(kw, PromptParams))
    IN  IF p.patch_size = 0
        THEN Raise("ZeroDivisionError")
        ELSE Ok(Override(
                [hidden_size |-> p.hidden_size,
                 image_size |-> p.image_size,
                 patch_size |-> p.patch_size,
                 image_embedding_size |-> PyFloorDiv(p.image_size, p.patch_size),
                 mask_input_channels |-> p.mask_input_channels,
                 num_point_embeddings |-> p.num_point_embeddings,
                 hidden_act |-> p.hidden_act,
                 layer_norm_eps |-> p.layer_norm_eps],
                base))

PromptInit(kw) ==
    LET p == Override(PromptDefaults, Restrict(kw, PromptParams))
        base == BaseInit(Without(kw, PromptParams))
    IN  IF p.patch_size = 0
        THEN Raise("ZeroDivisionError")
        ELSE Ok(Override(base,
                [hidden_size |-> p.hidden_size,
                 image_size |-> p.image_size,
                 patch_size |-> p.patch_size,
                 image_embedding_size |-> PyFloorDiv(p.image_size, p.patch_size),
                 mask_input_channels |-> p.mask_input_channels,
                 num_point_embeddings |-> p.num_point_embeddings,
                 hidden_act |-> p.hidden_act,
                 layer_norm_eps |-> p.layer_norm_eps]))

\* --------------------------------------------- SAMHQMaskDecoderConfig
MaskParams ==
    {"hidden_size", "hidden_act", "mlp_dim", "num_hidden_layers",
     "num_attention_heads", "attention_downsam_hqple_rate",
     "num_multimask_outputs", "iou_head_depth", "iou_head_hidden_dim",
     "layer_norm_eps", "vision_encoder_dim"}

MaskDefaults ==
    [hidden_size |-> 256, hidden_act |-> "relu", mlp_dim |-> 2048,
     num_hidden_layers |-> 2, num_attention_heads |-> 8,
     attention_downsam_hqple_rate |-> 2, num_multimask_outputs |-> 3,
     iou_head_depth |-> 3, iou_head_hidden_dim |-> 256,
     layer_norm_eps |-> "1e-06", vision_encoder_dim |-> 768]

MaskFields == MaskParams

MaskInit(kw) ==
    LET p == Override(MaskDefaults, Restrict(kw, MaskParams))
        base == BaseInit(Without(kw, MaskParams))
    IN  Ok(Override(base,
            [vision_encoder_dim |-> p.vision_encoder_dim,
             hidden_size |-> p.hidden_size,
             hidden_act |-> p.hidden_act,
             mlp_dim |-> p.mlp_dim,
             num_hidden_layers |-> p.num_hidden_layers,
             num_attention_heads |-> p.num_attention_heads,
             attention_downsam_hqple_rate |-> p.attention_downsam_hqple_rate,
             num_multimask_outputs |-> p.num_multimask_outputs,
             iou_head_depth |-> p.iou_head_depth,
             iou_head_hidden_dim |-> p.iou_head_hidden_dim,
             layer_norm_eps |-> p.layer_norm_eps]))

\* -------------------------------------------------- SAMHQVisionConfig
VisionParams ==
    {"hidden_size", "output_channels", "num_hidden_layers",
     "num_attention_heads", "num_channels", "image_size", "patch_size",
     "hidden_act", "layer_norm_eps", "attention_dropout",
     "initializer_range", "qkv_bias", "mlp_ratio", "use_abs_pos",
     "use_rel_pos", "window_size", "global_attn_indexes", "num_pos_feats",
     "mlp_dim"}

\* The defaults of every parameter but global_attn_indexes (a shared list
\* object, DefaultListRef) and mlp_dim (None).
VisionDefaults ==
    [hidden_size |-> 768, output_channels |-> 256, num_hidden_layers |-> 12,
     num_attention_heads |-> 12, num_channels |-> 3, image_size |-> 1024,
     patch_size |-> 16, hidden_act |-> "gelu", layer_norm_eps |-> "1e-06",
     attention_dropout |-> "0.0", initializer_range |-> "1e-10",
     qkv_bias |-> TRUE, mlp_ratio |-> [num |-> 4, den |-> 1],
     use_abs_pos |-> TRUE, use_rel_pos |-> TRUE, window_size |-> 14,
     num_pos_feats |-> 128]

VisionFields == VisionParams

\* The list object the def statement creates for the default of
\* global_attn_indexes, and its contents at that time.
DefaultListRef == 1

DefaultGlobalAttn == <<2, 5, 8, 11>>

\* Mutant: `mlp_dim or int(hidden_size * mlp_ratio)`, which takes a supplied
\* 0 for an absent value.
VisionMlpDimFalsy(p, kw) ==
    IF Has(kw, "mlp_dim") /\ kw.mlp_dim # 0
    THEN kw.mlp_dim
    ELSE PyInt(p.hidden_size * p.mlp_ratio.num, p.mlp_ratio.den)

\* The value of self.mlp_dim, given the bound parameters p and whether the
\* caller supplied mlp_dim (is not None).
VisionMlpDim(p, kw) ==
    IF Has(kw, "mlp_dim")
    THEN kw.mlp_dim
    ELSE PyInt(p.hidden_size * p.mlp_ratio.num, p.mlp_ratio.den)

\* gai: the reference bound to the parameter global_attn_indexes.
VisionInit(kw, gai) ==
    LET p == Override(VisionDefaults,
                      Restrict(kw, VisionParams \ {"global_attn_indexes", "mlp_dim"}))
        base == BaseInit(Without(kw, VisionParams))
    IN  Ok(Override(base,
            [hidden_size |-> p.hidden_size,
             output_channels |-> p.output_channels,
             num_hidden_layers |-> p.num_hidden_layers,
             num_attention_heads |-> p.num_attention_heads,
             num_channels |-> p.num_channels,
             image_size |-> p.image_size,
             patch_size |-> p.patch_size,
             hidden_act |-> p.hidden_act,
             layer_norm_eps |-> p.layer_norm_eps,
             attention_dropout |-> p.attention_dropout,
             initializer_range |-> p.initializer_range,
             qkv_bias |-> p.qkv_bias,
             mlp_ratio |-> p.mlp_ratio,
             use_abs_pos |-> p.use_abs_pos,
             use_rel_pos |-> p.use_rel_pos,
             window_size |-> p.window_size,
             global_attn_indexes |-> gai,
             num_pos_feats |-> p.num_pos_feats,
             mlp_dim |-> VisionMlpDim(p, kw)]))

\* --------------------------------------------------------- the world
\* A world is the part of the state constructors read and extend.
World == [heap |-> heap, lists |-> lists, birth |-> birth]

Done(w, r) == [ok |-> TRUE, err |-> "", w |-> w, ref |-> r]

Failed(w, e) == [ok |-> FALSE, err |-> e, w |-> w, ref |-> 0]

\* A new object of class cls with attributes attrs, constructed with kw.
Alloc(w, cls, attrs, kw, by) ==
    [w EXCEPT !.heap = Append(@, [cls |-> cls, attrs |-> attrs]),
              !.birth = Append(@, [by |-> by, kw |-> kw])]

\* cls(**kw) for the three sub-config classes.  A list given for
\* global_attn_indexes is a list object of its own (the caller's literal, or
\* the copy to_dict made), which the instance then references.
NewSub(cls, kw, w, by) ==
    IF cls = "Prompt"
    THEN LET r == PromptInit(kw)
         IN  IF r.ok
             THEN Done(Alloc(w, cls, r.attrs, kw, by), Len(w.heap) + 1)
             ELSE Failed(w, r.err)
    ELSE IF cls = "Mask"
    THEN LET r == MaskInit(kw)
         IN  Done(Alloc(w, cls, r.attrs, kw, by), Len(w.heap) + 1)
    ELSE LET supplied == Has(kw, "global_attn_indexes")
             w1 == IF supplied
                   THEN [w EXCEPT !.lists = Append(@, kw.global_attn_indexes)]
                   ELSE w
             gai == IF supplied THEN Len(w1.lists) ELSE DefaultListRef
             r == VisionInit(kw, gai)
         IN  Done(Alloc(w1, cls, r.attrs, kw, by), Len(w.heap) + 1)

\* ------------------------------------------------------------ to_dict
\* PretrainedConfig.to_dict() of a sub-config: a deep copy of its
\* attributes (a list attribute is copied by content).
SubToDict(r, w) ==
    LET o == w.heap[r]
    IN  IF o.cls = "Vision"
        THEN [o.attrs EXCEPT !["global_attn_indexes"] = w.lists[@]]
        ELSE o.attrs

SubKeys == {"vision_config", "prompt_encoder_config", "mask_decoder_config"}

\* to_dict() of any config: nested configs are expanded to their own
\* to_dict(), and the class attribute model_type is added.
ToDict(r, w) ==
    LET o == w.heap[r]
    IN  IF o.cls = "Top"
        THEN Override(
                [k \in DOMAIN o.attrs |->
                    IF k \in SubKeys /\ o.attrs[k].kind = "inst"
                    THEN DictArg(SubToDict(o.attrs[k].ref, w))
                    ELSE o.attrs[k]],
                [model_type |-> "sam-hq"])
        ELSE SubToDict(r, w)

\* ------------------------------------------------------- SAMHQConfig
TopParams == SubKeys \cup {"initializer_range"}

\* Mutant: only a mapping is kept; an instance is replaced by {} like None.
NormalizeDictOnly(arg, w) ==
    IF arg.kind = "dict" THEN arg.d ELSE EmptyMap

\* Lines 295-304: None becomes {}, an instance becomes its to_dict().
Normalize(arg, w) ==
    IF arg.kind = "none" THEN EmptyMap
    ELSE IF arg.kind = "inst" THEN SubToDict(arg.ref, w)
    ELSE arg.d

\* Mutant: a mapping is stored as given instead of the instance built from it.
StoredSubRaw(arg, fresh) ==
    IF arg.kind = "dict" THEN arg ELSE InstArg(fresh)

\* Mutant: an instance is stored as given instead of the one rebuilt from it.
StoredSubKeepInstance(arg, fresh) ==
    IF arg.kind = "inst" THEN arg ELSE InstArg(fresh)

\* Lines 306-308: what is assigned to self.<sub>_config, given the argument
\* and the instance freshly constructed from its normalized mapping.
StoredSub(arg, fresh) == InstArg(fresh)

TopInit(kw, w, by) ==
    LET v == Get(kw, "vision_config", NoneArg)
        p == Get(kw, "prompt_encoder_config", NoneArg)
        m == Get(kw, "mask_decoder_config", NoneArg)
        base == BaseInit(Without(kw, TopParams))
        rv == NewSub("Vision", Normalize(v, w), w, "top")
        rp == NewSub("Prompt", Normalize(p, w), rv.w, "top")
    IN  IF ~rp.ok
        THEN Failed(w, rp.err)
        ELSE LET rm == NewSub("Mask", Normalize(m, w), rp.w, "top")
                 attrs == Override(base,
                            [vision_config |-> StoredSub(v, rv.ref),
                             prompt_encoder_config |-> StoredSub(p, rp.ref),
                             mask_decoder_config |-> StoredSub(m, rm.ref),
                             initializer_range |->
                                 Get(kw, "initializer_range", "0.02")])
             IN  Done(Alloc(rm.w, "Top", attrs, kw, by),
                      Len(rm.w.heap) + 1)

\* cls(**kw) for any of the four classes, called by `by`.
New(cls, kw, w, by) ==
    IF cls = "Top" THEN TopInit(kw, w, by) ELSE NewSub(cls, kw, w, by)

\* ------------------------------------------------- the caller's inputs
Opt(k, S) == {EmptyMap} \cup {k :> v : v \in S}

Both(A, B) == {a @@ b : a \in A, b \in B}

PromptKwargs ==
    Both(Opt("image_size", {100}),
         Both(Opt("patch_size", {0, -16, 8}),
              Opt("image_embedding_size", {99})))

MaskKwargs ==
    {EmptyMap,
     [attention_downsample_rate |-> 4],
     [attention_downsam_hqple_rate |-> 4, hidden_size |-> 128]}

VisionKwargs ==
    Both(Opt("hidden_size", {-3, 5}),
         Both(Opt("mlp_ratio", {[num |-> 5, den |-> 4]}),
              Opt("mlp_dim", {0})))
    \cup Both(Opt("window_size", {7}), Opt("global_attn_indexes", {<<1>>}))

\* The sub-configs a caller builds before composing them.
PartKwargs(cls) ==
    IF cls = "Vision" THEN {EmptyMap, [window_size |-> 7]}
    ELSE IF cls = "Prompt" THEN {EmptyMap, [image_size |-> 100, patch_size |-> 8]}
    ELSE {EmptyMap, [hidden_size |-> 128, attention_downsample_rate |-> 4]}

\* The mappings a caller passes for a sub-config.
SubDicts(cls) ==
    IF cls = "Vision" THEN {[window_size |-> 7]}
    ELSE IF cls = "Prompt" THEN {[patch_size |-> 8], [patch_size |-> 0]}
    ELSE {[mlp_dim |-> 1024]}

Refs(cls) == {i \in 1..Len(heap) : heap[i].cls = cls}

\* The instance of cls constructed last, if any.
Latest(cls) == {i \in Refs(cls) : \A j \in Refs(cls) : j <= i}

\* What a caller may pass for one sub-config of SAMHQConfig: None, an
\* instance of the corresponding class, or a mapping.
SubArgs(cls) ==
    {NoneArg} \cup {InstArg(i) : i \in Latest(cls)}
              \cup {DictArg(d) : d \in SubDicts(cls)}

TopKwargsOf(V, P, M) ==
    {[vision_config |-> v, prompt_encoder_config |-> p,
      mask_decoder_config |-> m] : v \in V, p \in P, m \in M}

TopKwargs == TopKwargsOf(SubArgs("Vision"), SubArgs("Prompt"), SubArgs("Mask"))

\* A caller that passes instances it holds, or nothing.
Held(cls) == {NoneArg} \cup {InstArg(i) : i \in Latest(cls)}

HeldKwargs == TopKwargsOf(Held("Vision"), Held("Prompt"), Held("Mask"))

\* Attribute assignments a caller makes on an existing instance.
Assignable(cls) ==
    IF cls = "Prompt" THEN {<<"image_size", 512>>, <<"patch_size", 8>>}
    ELSE IF cls = "Vision" THEN {<<"window_size", 3>>}
    ELSE IF cls = "Mask" THEN {<<"mlp_dim", 1024>>}
    ELSE {<<"initializer_range", "0.5">>}

\* ------------------------------------------------------------ actions
Init ==
    /\ heap = <<>>
    /\ lists = <<DefaultGlobalAttn>>
    /\ birth = <<>>
    /\ touched = {}
    /\ last = [op |-> "none", cls |-> "", kw |-> EmptyMap, ok |-> TRUE,
               err |-> "", ref |-> 0, of |-> 0]
    /\ calls = 0
    /\ writes = 0

\* The caller evaluates cls(**kw); `of` is the instance kw was taken from
\* (0 when kw is the caller's own).
Call(op, cls, kw, of) ==
    /\ \E r \in {New(cls, kw, World, op)} :
        /\ last' = [op |-> op, cls |-> cls, kw |-> kw, ok |-> r.ok,
                    err |-> r.err, ref |-> r.ref, of |-> of]
        /\ heap' = r.w.heap
        /\ lists' = r.w.lists
        /\ birth' = r.w.birth
        /\ calls' = IF r.ok THEN calls + 1 ELSE calls
    /\ UNCHANGED <<touched, writes>>

NewPrompt ==
    /\ calls < MaxCalls
    /\ \E kw \in PromptKwargs : Call("new", "Prompt", kw, 0)

NewMask ==
    /\ calls < MaxCalls
    /\ \E kw \in MaskKwargs : Call("new", "Mask", kw, 0)

NewVision ==
    /\ calls < MaxCalls
    /\ \E kw \in VisionKwargs : Call("new", "Vision", kw, 0)

NewPart ==
    /\ calls < MaxTopCalls
    /\ \E cls \in {"Vision", "Prompt", "Mask"} : \E kw \in PartKwargs(cls) :
        Call("new", cls, kw, 0)

NewTop ==
    /\ calls < MaxTopCalls
    /\ \E kw \in TopKwargs : Call("new", "Top", kw, 0)

NewTopOfHeld ==
    /\ calls < MaxTopCalls
    /\ \E kw \in HeldKwargs : Call("new", "Top", kw, 0)

\* type(c)(**c.to_dict()) for an existing instance c.
RoundTrip(maxCalls) ==
    /\ calls < maxCalls
    /\ \E i \in 1..Len(heap) :
        Call("roundtrip", heap[i].cls, ToDict(i, World), i)

\* c.k = v on an existing instance c.
SetAttr(maxWrites) ==
    \E i \in 1..Len(heap) : \E a \in Assignable(heap[i].cls) :
        /\ writes < maxWrites
        /\ heap' = [heap EXCEPT ![i].attrs[a[1]] = a[2]]
        /\ last' = [op |-> "setattr", cls |-> heap[i].cls, kw |-> EmptyMap,
                    ok |-> TRUE, err |-> "", ref |-> i, of |-> 0]
        /\ writes' = writes + 1
        /\ UNCHANGED <<lists, birth, touched, calls>>

\* c.global_attn_indexes.append(0) on a vision instance c.
ListAppend(maxWrites) ==
    \E i \in Refs("Vision") :
        LET l == heap[i].attrs.global_attn_indexes
        IN  /\ writes < maxWrites
            /\ Len(lists[l]) < MaxListLen
            /\ lists' = [lists EXCEPT ![l] = Append(@, 0)]
            /\ touched' = touched \cup {i}
            /\ last' = [op |-> "append", cls |-> "Vision", kw |-> EmptyMap,
                        ok |-> TRUE, err |-> "", ref |-> i, of |-> 0]
            /\ writes' = writes + 1
            /\ UNCHANGED <<heap, birth, calls>>

\* A caller composing a SAMHQConfig from parts, reassigning and round-tripping.
Next ==
    \/ NewPart
    \/ NewTop
    \/ RoundTrip(MaxTopCalls)
    \/ SetAttr(MaxTopWrites)
    \/ ListAppend(MaxTopWrites)

Spec == Init /\ [][Next]_vars

\* A caller of SAMHQPromptEncoderConfig and SAMHQMaskDecoderConfig alone.
NextRecords ==
    \/ NewPrompt
    \/ NewMask
    \/ RoundTrip(MaxCalls)
    \/ SetAttr(MaxWrites)

SpecRecords == Init /\ [][NextRecords]_vars

\* A caller of SAMHQVisionConfig alone.
NextVision ==
    \/ NewVision
    \/ SetAttr(MaxWrites)
    \/ ListAppend(MaxWrites)

SpecVision == Init /\ [][NextVision]_vars

\* A caller that builds parts and composes them, without later writes.
NextCompose ==
    \/ NewPart
    \/ NewTop

SpecCompose == Init /\ [][NextCompose]_vars

\* A caller that composes instances it holds and then reassigns their fields.
NextOwn ==
    \/ NewPart
    \/ NewTopOfHeld
    \/ SetAttr(MaxTopWrites)

SpecOwn == Init /\ [][NextOwn]_vars

\* ------------------------------------------------- reading the state
ClassOf(k) ==
    IF k = "vision_config" THEN "Vision"
    ELSE IF k = "prompt_encoder_config" THEN "Prompt" ELSE "Mask"

Fields(cls) ==
    IF cls = "Vision" THEN VisionFields
    ELSE IF cls = "Prompt" THEN PromptFields ELSE MaskFields

Defaults(cls) ==
    IF cls = "Vision" THEN VisionDefaults
    ELSE IF cls = "Prompt" THEN PromptDefaults ELSE MaskDefaults

\* The value of attribute f of instance i, a list taken by content.
Value(i, f) ==
    IF f = "global_attn_indexes" THEN lists[heap[i].attrs[f]]
    ELSE heap[i].attrs[f]

\* The call just made constructed an instance of cls.
JustBuilt(cls) == last.op = "new" /\ last.cls = cls /\ last.ok

Abs(x) == IF x < 0 THEN 0 - x ELSE x

\* ------------------------------------------------------------ claims

\* C1: after SAMHQConfig construction, whatever was passed for each of the
\* three sub-configs (None, an instance, a mapping), each stored sub-config is
\* an instance of the corresponding class with every field of that class
\* defined, never None and never a raw mapping; right after construction a
\* field the normalized mapping did not give holds the class default.
C1_SubConfigsConcrete ==
    /\ \A t \in Refs("Top") : \A k \in SubKeys :
        LET s == heap[t].attrs[k]
        IN  /\ s.kind = "inst"
            /\ s.ref \in 1..Len(heap)
            /\ heap[s.ref].cls = ClassOf(k)
            /\ Fields(ClassOf(k)) \subseteq DOMAIN heap[s.ref].attrs
    /\ JustBuilt("Top") =>
        \A k \in SubKeys :
            LET s == heap[last.ref].attrs[k].ref
                d == Defaults(ClassOf(k))
            IN  \A f \in (DOMAIN d) \ (DOMAIN birth[s].kw) :
                    heap[s].attrs[f] = d[f]

C1_Witness ==
    /\ JustBuilt("Top")
    /\ last.kw.vision_config.kind = "inst"
    /\ last.kw.prompt_encoder_config.kind = "dict"
    /\ last.kw.mask_decoder_config.kind = "none"
    /\ heap[heap[last.ref].attrs.prompt_encoder_config.ref].attrs.hidden_size = 256

\* C2: vision instances constructed with the default global_attn_indexes do
\* not share one list: an instance through which no list was mutated, and that
\* was constructed without global_attn_indexes, still reads [2, 5, 8, 11].
C2_DefaultNotShared ==
    \A i \in Refs("Vision") :
        (~Has(birth[i].kw, "global_attn_indexes") /\ i \notin touched)
            => Value(i, "global_attn_indexes") = <<2, 5, 8, 11>>

\* C3: constructing a config from the flattened mapping of a config C (of any
\* of the four classes, its fields possibly reassigned) succeeds and yields a
\* config whose flattened mapping equals C's.
C3_RoundTrip ==
    last.op = "roundtrip" =>
        /\ last.ok
        /\ ToDict(last.ref, World) = last.kw

\* C4: constructing a SAMHQPromptEncoderConfig with patch_size <= 0 fails
\* with a ConfigurationError and no instance results.
C4_NonPositivePatchRejected ==
    (last.op = "new" /\ last.cls = "Prompt"
        /\ Get(last.kw, "patch_size", 16) <= 0)
            => (~last.ok /\ last.err = "ConfigurationError" /\ last.ref = 0)

\* C5: right after SAMHQPromptEncoderConfig(image_size=I, patch_size=P) with
\* P > 0 dividing I, image_embedding_size is the exact quotient I / P,
\* whatever image_embedding_size was passed among the extra options.
C5_EmbeddingSizeDerived ==
    JustBuilt("Prompt") =>
        LET I == Get(last.kw, "image_size", 1024)
            P == Get(last.kw, "patch_size", 16)
        IN  (P > 0 /\ I % P = 0) =>
                heap[last.ref].attrs.image_embedding_size * P = I

C5_Witness ==
    /\ JustBuilt("Prompt")
    /\ Has(last.kw, "image_embedding_size")
    /\ Has(last.kw, "patch_size")
    /\ last.kw.patch_size > 0
    /\ Get(last.kw, "image_size", 1024) % last.kw.patch_size = 0
    /\ heap[last.ref].attrs.image_embedding_size # last.kw.image_embedding_size

\* C6: mlp_dim of a vision instance is the supplied value when mlp_dim was
\* supplied (0 included), and otherwise hidden_size * mlp_ratio truncated
\* toward zero: the integer m of the product's sign with
\* |m| <= |hidden_size * mlp_ratio| < |m| + 1.
C6_MlpDim ==
    \A i \in Refs("Vision") :
        LET kw == birth[i].kw
            r == Get(kw, "mlp_ratio", [num |-> 4, den |-> 1])
            x == Get(kw, "hidden_size", 768) * r.num
            m == heap[i].attrs.mlp_dim
        IN  IF Has(kw, "mlp_dim")
            THEN m = kw.mlp_dim
            ELSE /\ Abs(m) * r.den <= Abs(x)
                 /\ Abs(x) < (Abs(m) + 1) * r.den
                 /\ (m > 0 => x > 0)
                 /\ (m < 0 => x < 0)

C6_Witness ==
    \E i, j \in Refs("Vision") :
        /\ Has(birth[i].kw, "mlp_dim")
        /\ birth[i].kw.mlp_dim = 0
        /\ heap[i].attrs.mlp_dim = 0
        /\ heap[i].attrs.hidden_size = 5
        /\ ~Has(birth[j].kw, "mlp_dim")
        /\ heap[j].attrs.hidden_size = -3
        /\ heap[j].attrs.mlp_ratio = [num |-> 5, den |-> 4]
        /\ heap[j].attrs.mlp_dim = -3

\* C7: when an instance is passed to SAMHQConfig, every field that was given
\* a non-default value when the instance was constructed has, in the stored
\* sub-config, the value the passed instance carries.
C7_PassedValuesKept ==
    JustBuilt("Top") =>
        \A k \in SubKeys :
            last.kw[k].kind = "inst" =>
                LET p == last.kw[k].ref
                    s == heap[last.ref].attrs[k].ref
                    d == Defaults(ClassOf(k))
                IN  \A f \in (DOMAIN d) \cap (DOMAIN birth[p].kw) :
                        birth[p].kw[f] # d[f] => Value(s, f) = Value(p, f)

C7_Witness ==
    /\ JustBuilt("Top")
    /\ last.kw.vision_config.kind = "inst"
    /\ Has(birth[last.kw.vision_config.ref].kw, "window_size")
    /\ birth[last.kw.vision_config.ref].kw.window_size = 7
    /\ heap[heap[last.ref].attrs.vision_config.ref].attrs.window_size = 7

\* C8: SAMHQMaskDecoderConfig() has every field the specification names at
\* its default, attention_downsample_rate = 2 among them, and a value passed
\* as attention_downsample_rate becomes the decoder's downsample rate.
C8_DownsampleRate ==
    JustBuilt("Mask") =>
        LET a == heap[last.ref].attrs
        IN  /\ Has(a, "attention_downsample_rate")
            /\ last.kw = EmptyMap =>
                /\ a.attention_downsample_rate = 2
                /\ a.hidden_size = 256 /\ a.hidden_act = "relu"
                /\ a.mlp_dim = 2048 /\ a.num_hidden_layers = 2
                /\ a.num_attention_heads = 8 /\ a.num_multimask_outputs = 3
                /\ a.iou_head_depth = 3 /\ a.iou_head_hidden_dim = 256
                /\ a.layer_norm_eps = "1e-06" /\ a.vision_encoder_dim = 768
            /\ Has(last.kw, "attention_downsample_rate") =>
                a.attention_downsam_hqple_rate = last.kw.attention_downsample_rate

\* C9: image_embedding_size of a prompt-encoder instance stays the floor
\* quotient of the image_size and patch_size it was constructed with, through
\* any reassignment of image_size or patch_size.
C9_EmbeddingSizeStale ==
    \A i \in Refs("Prompt") :
        LET I == Get(birth[i].kw, "image_size", 1024)
            P == Get(birth[i].kw, "patch_size", 16)
            e == heap[i].attrs.image_embedding_size
        IN  IF P > 0
            THEN e * P <= I /\ I < (e + 1) * P
            ELSE e * P >= I /\ I > (e + 1) * P

C9_Witness ==
    \E i \in Refs("Prompt") :
        /\ heap[i].attrs.image_size # Get(birth[i].kw, "image_size", 1024)
        /\ heap[i].attrs.patch_size # Get(birth[i].kw, "patch_size", 16)
        /\ heap[i].attrs.patch_size > 0
        /\ heap[i].attrs.image_embedding_size
              # PyFloorDiv(heap[i].attrs.image_size, heap[i].attrs.patch_size)

\* C10: SAMHQConfig never stores the instance it was passed: the stored
\* sub-config is another object, constructed by SAMHQConfig from the passed
\* instance's flattened mapping, and a reassignment on either of the two
\* leaves the attributes of the other unchanged.
C10_StoredIsFresh ==
    [][\A t \in Refs("Top") : \A k \in SubKeys :
          birth[t].kw[k].kind = "inst" =>
            LET p == birth[t].kw[k].ref
                s == heap[t].attrs[k].ref
            IN  /\ s # p
                /\ birth[s].by = "top"
                /\ (JustBuilt("Top") /\ last.ref = t)
                      => birth[s].kw = SubToDict(p, World)
                /\ (last'.op = "setattr" /\ last'.ref = p)
                      => heap'[s].attrs = heap[s].attrs
                /\ (last'.op = "setattr" /\ last'.ref = s)
                      => heap'[p].attrs = heap[p].attrs]_vars

C10_Witness ==
    /\ last.op = "setattr"
    /\ \E t \in Refs("Top") :
        /\ birth[t].kw.vision_config.kind = "inst"
        /\ last.ref = birth[t].kw.vision_config.ref
        /\ heap[last.ref].attrs.window_size = 3
        /\ heap[heap[t].attrs.vision_config.ref].attrs.window_size = 7

====
